---- MODULE Spec2Model ----
(***************************************************************************)
(* A model of bytes-ringbuffer (src/lib.rs): the RingBuffer struct, its    *)
(* Buf implementation (remaining, bytes, advance) and its BufMut           *)
(* implementation (remaining_mut, bytes_mut, advance_mut).                 *)
(*                                                                         *)
(* Offsets are 0-based as in the source; the Vec `buffer` is a sequence,   *)
(* so the cell at physical offset p is buffer[p + 1].  A slice             *)
(* &buffer[lo..hi] is the record [panic, lo, hi]; panic is the slice       *)
(* index check of the language.                                            *)
(*                                                                         *)
(* Specifications: Spec (any advance / advance_mut call), SpecRW (chunked  *)
(* writers and readers), SpecSafe (writers keeping the advance_mut         *)
(* contract), SpecLoop (the put / get loops of a k-byte value),            *)
(* SpecReplay (one script run from two empty states), SpecConc (advance    *)
(* and advance_mut as two processes).                                      *)
(***************************************************************************)
EXTENDS Integers, Naturals, Sequences, FiniteSets, TLC

\* ---------------------------------------------------------------- bounds
MaxCap == 3        \* largest capacity passed to RingBuffer::new
MaxByte == 1       \* bytes written by callers are 0..MaxByte
MaxCalls == 3      \* calls the reader and writer processes make together
MaxOps == 3        \* length of a recorded script of put_u8 / get_u8 calls
MaxCycles == 3     \* cycles of one put_slice / copy_to_slice loop that are followed

Byte == 0..MaxByte

\* MaybeUninit::uninit(): a cell no caller has written
Uninit == -1

\* result of a usize subtraction that underflows (panic in a debug build,
\* a wrapped value above every count in a release build)
Overflow == -2

VARIABLES
    buffer,     \* RingBuffer.buffer : Vec<MaybeUninit<u8>>
    begin,      \* RingBuffer.begin
    len,        \* RingBuffer.len
    requested,  \* the argument RingBuffer::new was called with
    call,       \* the last call a caller made directly: [name, cnt]
    res,        \* its outcome: "ok" or "panic"
    wlog,       \* bytes put since the buffer was last empty
    rlog,       \* bytes got since the buffer was last empty
    mode,       \* "write": only puts so far, "read": puts then gets, "mixed"
    prev,       \* data of the preceding fill-to-capacity-and-drain, kept while
                \* the bytes put since are still being written or fill the buffer
    live,       \* physical offsets written and declared by a writer, not yet consumed
    fifo,       \* the bytes put and not yet got, oldest first
    job,        \* the put_slice / copy_to_slice loop in progress
    replay,     \* a script of byte-wise calls run on the buffer at two begins
    proc        \* an advance and an advance_mut running as two processes

vars == <<buffer, begin, len, requested, call, res, wlog, rlog, mode, prev,
          live, fifo, job, replay, proc>>
ghost == <<wlog, rlog, mode, prev>>
aux == <<job, replay, proc>>

Min(a, b) == IF a <= b THEN a ELSE b

\* ------------------------------------------------------- RingBuffer, Buf
\* RingBuffer::capacity
capacity == Len(buffer)

\* Buf::remaining
remaining == len

\* &self.buffer[lo..hi]
Slice(lo, hi) == [panic |-> lo > hi \/ hi > capacity, lo |-> lo, hi |-> hi]

SliceLen(s) == s.hi - s.lo

SliceCells(s) == SubSeq(buffer, s.lo + 1, s.hi)

\* `end` in Buf::bytes, for a buffer with the given begin, len and capacity
BytesEnd(b, l, c) == Min(b + l, c)

\* bytes with the end not limited to the physical end of storage
bytes_no_min == Slice(begin, begin + len)

\* bytes that ignores begin and always starts at offset 0
bytes_from_zero == Slice(0, Min(len, capacity))

\* Buf::bytes
bytes ==
    LET end == BytesEnd(begin, len, capacity)
    IN  Slice(begin, end)

\* usize subtraction
USub(a, b) == IF b <= a THEN a - b ELSE Overflow

\* BufMut::remaining_mut
remaining_mut == USub(capacity, remaining)

\* bytes_mut whose start offset is not reduced modulo the capacity
bytes_mut_no_mod ==
    IF capacity = 0 \/ remaining_mut = Overflow
    THEN [panic |-> TRUE, lo |-> 0, hi |-> 0]
    ELSE LET b == begin + len
             e == Min(b + remaining_mut, capacity)
         IN  Slice(b, e)

\* bytes_mut that starts at the first occupied cell instead of the first free one
bytes_mut_at_begin ==
    IF capacity = 0 \/ remaining_mut = Overflow
    THEN [panic |-> TRUE, lo |-> 0, hi |-> 0]
    ELSE LET b == begin % capacity
             e == Min(b + remaining_mut, capacity)
         IN  Slice(b, e)

\* BufMut::bytes_mut
bytes_mut ==
    IF capacity = 0 \/ remaining_mut = Overflow
    THEN [panic |-> TRUE, lo |-> 0, hi |-> 0]
    ELSE LET b == (begin + len) % capacity
             e == Min(b + remaining_mut, capacity)
         IN  Slice(b, e)

\* advance without the reduction of begin modulo the capacity
advance_no_wrap(cnt) ==
    IF ~(cnt <= len)
    THEN /\ res' = "panic"
         /\ UNCHANGED <<begin, len>>
    ELSE /\ res' = "ok"
         /\ begin' = begin + cnt
         /\ len' = len - cnt

\* advance that clamps the count to len instead of asserting
advance_clamp(cnt) ==
    LET n == Min(cnt, len)
    IN  IF capacity = 0
        THEN /\ res' = "panic"
             /\ begin' = begin + n
             /\ UNCHANGED len
        ELSE /\ res' = "ok"
             /\ begin' = (begin + n) % capacity
             /\ len' = len - n

\* Buf::advance
advance(cnt) ==
    IF ~(cnt <= len)
    THEN /\ res' = "panic"
         /\ UNCHANGED <<begin, len>>
    ELSE IF capacity = 0
    THEN /\ res' = "panic"
         /\ begin' = begin + cnt
         /\ UNCHANGED len
    ELSE /\ res' = "ok"
         /\ begin' = (begin + cnt) % capacity
         /\ len' = len - cnt

\* advance_mut that asserts against the capacity instead of the free space
advance_mut_vs_capacity(cnt) ==
    IF ~(cnt <= capacity)
    THEN /\ res' = "panic"
         /\ UNCHANGED <<begin, len>>
    ELSE /\ res' = "ok"
         /\ len' = len + cnt
         /\ UNCHANGED begin

\* advance_mut that clamps the count to the free space instead of asserting
advance_mut_clamp(cnt) ==
    /\ res' = "ok"
    /\ len' = len + (IF remaining_mut = Overflow THEN 0 ELSE Min(cnt, remaining_mut))
    /\ UNCHANGED begin

\* advance_mut that assigns the count to len instead of adding it
advance_mut_assign(cnt) ==
    IF ~(cnt <= capacity - len)
    THEN /\ res' = "panic"
         /\ UNCHANGED <<begin, len>>
    ELSE /\ res' = "ok"
         /\ len' = cnt
         /\ UNCHANGED begin

\* BufMut::advance_mut
advance_mut(cnt) ==
    IF remaining_mut = Overflow
    THEN \/ /\ res' = "panic"
            /\ UNCHANGED <<begin, len>>
         \/ /\ res' = "ok"
            /\ len' = len + cnt
            /\ UNCHANGED begin
    ELSE IF ~(cnt <= remaining_mut)
    THEN /\ res' = "panic"
         /\ UNCHANGED <<begin, len>>
    ELSE /\ res' = "ok"
         /\ len' = len + cnt
         /\ UNCHANGED begin

\* RingBuffer::new
new(c) ==
    /\ buffer = [i \in 1..c |-> Uninit]
    /\ begin = 0
    /\ len = 0

\* no loop in progress
JobIdle == [kind |-> "idle", data |-> << >>, off |-> 0, cycles |-> 0, out |-> << >>]

\* nothing recorded yet
ReplayInit ==
    [phase |-> "history1", script |-> << >>, obs |-> << >>, obs2 |-> << >>,
     begin1 |-> 0, begin2 |-> 0]

\* both processes idle; `atomic` tells whether a call runs as one step
ProcInit(atomic) ==
    [atomic |-> atomic, rpc |-> "idle", rcnt |-> 0, rtmp |-> 0,
     wpc |-> "idle", wcnt |-> 0, wtmp |-> 0,
     written |-> 0, consumed |-> 0, calls |-> 0]

InitState(atomic) ==
    /\ \E c \in 0..MaxCap : new(c) /\ requested = c
    /\ call = [name |-> "new", cnt |-> 0]
    /\ res = "ok"
    /\ wlog = << >>
    /\ rlog = << >>
    /\ mode = "write"
    /\ prev = << >>
    /\ live = {}
    /\ fifo = << >>
    /\ job = JobIdle
    /\ replay = ReplayInit
    /\ proc = ProcInit(atomic)

Init == InitState(TRUE)

\* the buffer shared by a reader and a writer process, whose calls run either
\* as one step each or statement by statement
InitConc == \E atomic \in BOOLEAN : InitState(atomic)

\* --------------------------------------------------------------- callers
\* a caller calls advance with any count
CallAdvance ==
    \E cnt \in 0..(MaxCap + 1) :
        /\ advance(cnt)
        /\ call' = [name |-> "advance", cnt |-> cnt]
        /\ live' = IF res' = "ok"
                   THEN live \ {(begin + i) % capacity : i \in 0..(cnt - 1)}
                   ELSE live
        /\ UNCHANGED <<buffer, requested, ghost, fifo, aux>>

\* a caller calls advance_mut with any count
CallAdvanceMut ==
    \E cnt \in 0..(MaxCap + 1) :
        /\ advance_mut(cnt)
        /\ call' = [name |-> "advance_mut", cnt |-> cnt]
        /\ UNCHANGED <<buffer, requested, ghost, live, fifo, aux>>

\* a caller stores one byte through the slice bytes_mut returned
StoreBytesMut ==
    /\ ~bytes_mut.panic
    /\ \E i \in 0..(MaxCap - 1), b \in Byte :
        /\ i < SliceLen(bytes_mut)
        /\ buffer' = [buffer EXCEPT ![bytes_mut.lo + i + 1] = b]
        /\ call' = [name |-> "bytes_mut", cnt |-> i]
        /\ res' = "ok"
        /\ UNCHANGED <<begin, len, requested, ghost, live, fifo, aux>>

\* the physical offsets of the occupied region
Occupied == {(begin + i) % capacity : i \in 0..(len - 1)}

\* the bytes stored at circular offsets [b, b + n) mod capacity
Circular(b, n) == [i \in 1..n |-> buffer[((b + i - 1) % capacity) + 1]]

\* the storage after a caller copied data into the cells from offset lo on
StoreAt(lo, data) ==
    [p \in 1..capacity |->
        IF p > lo /\ p <= lo + Len(data) THEN data[p - lo] ELSE buffer[p]]

\* one cycle of a writer: take bytes_mut(), copy data into its first cells,
\* then advance_mut by the number of bytes copied
Put ==
    LET dst == bytes_mut
    IN  /\ ~dst.panic
        /\ \E n \in 1..SliceLen(dst) : \E data \in [1..n -> Byte] :
            /\ buffer' = StoreAt(dst.lo, data)
            /\ advance_mut(n)
            /\ IF len = 0
               THEN /\ prev' = IF mode # "mixed" /\ Len(wlog) = capacity /\ rlog = wlog
                                THEN wlog ELSE << >>
                    /\ wlog' = data
                    /\ rlog' = << >>
                    /\ mode' = "write"
               ELSE IF mode = "write"
               THEN /\ wlog' = wlog \o data
                    /\ UNCHANGED <<rlog, mode, prev>>
               ELSE /\ mode' = "mixed"
                    /\ wlog' = << >>
                    /\ rlog' = << >>
                    /\ prev' = << >>
            /\ fifo' = fifo \o data
            /\ UNCHANGED <<requested, call, live, aux>>

\* one cycle of a reader: take bytes(), copy its first n cells out, then
\* advance by n
Get ==
    LET src == bytes
    IN  /\ ~src.panic
        /\ \E n \in 1..SliceLen(src) :
            /\ advance(n)
            /\ IF mode = "mixed"
               THEN UNCHANGED <<rlog, mode, prev>>
               ELSE /\ rlog' = rlog \o SubSeq(SliceCells(src), 1, n)
                    /\ mode' = "read"
                    /\ prev' = IF Len(wlog) = capacity THEN prev ELSE << >>
            /\ fifo' = SubSeq(fifo, n + 1, Len(fifo))
            /\ UNCHANGED <<buffer, requested, call, wlog, live, aux>>

\* a writer that keeps the contract of advance_mut: it initializes the first n
\* cells of the slice bytes_mut() returned and then declares exactly those
Write ==
    LET dst == bytes_mut
    IN  /\ ~dst.panic
        /\ \E n \in 1..SliceLen(dst) : \E data \in [1..n -> Byte] :
            /\ buffer' = StoreAt(dst.lo, data)
            /\ advance_mut(n)
            /\ live' = live \cup {dst.lo + i : i \in 0..(n - 1)}
            /\ UNCHANGED <<requested, call, ghost, fifo, aux>>

\* a put_slice / copy_to_slice loop has moved all its bytes (or none was started)
JobDone == job.kind = "idle" \/ job.off = Len(job.data)

\* put of a k-byte value begins (put_u16: k = 2); the caller has checked
\* k <= remaining_mut()
StartPut ==
    /\ JobDone
    /\ remaining_mut # Overflow
    /\ \E k \in 1..MaxCap : \E src \in [1..k -> Byte] :
        /\ k <= remaining_mut
        /\ job' = [kind |-> "put", data |-> src, off |-> 0, cycles |-> 0, out |-> << >>]
    /\ UNCHANGED <<buffer, begin, len, requested, call, res, ghost, live, fifo,
                   replay, proc>>

\* one cycle of the put loop: n := min(bytes_mut().len(), bytes left); copy n
\* bytes; advance_mut(n)
PutCycle ==
    LET dst == bytes_mut
        n == Min(SliceLen(dst), Len(job.data) - job.off)
        chunk == SubSeq(job.data, job.off + 1, job.off + n)
    IN  /\ job.kind = "put"
        /\ job.off < Len(job.data)
        /\ job.cycles < MaxCycles
        /\ ~dst.panic
        /\ buffer' = StoreAt(dst.lo, chunk)
        /\ advance_mut(n)
        /\ job' = [job EXCEPT !.off = job.off + n, !.cycles = job.cycles + 1]
        /\ fifo' = fifo \o chunk
        /\ UNCHANGED <<requested, call, ghost, live, replay, proc>>

\* get of a k-byte value begins (get_u16: k = 2); the caller has checked
\* k <= remaining(); job.data is the value the queue holds at its front
StartGet ==
    /\ JobDone
    /\ \E k \in 1..MaxCap :
        /\ k <= remaining
        /\ job' = [kind |-> "get", data |-> SubSeq(fifo, 1, k), off |-> 0,
                   cycles |-> 0, out |-> << >>]
    /\ UNCHANGED <<buffer, begin, len, requested, call, res, ghost, live, fifo,
                   replay, proc>>

\* one cycle of the get loop: n := min(bytes().len(), bytes left); copy n
\* bytes; advance(n)
GetCycle ==
    LET src == bytes
        n == Min(SliceLen(src), Len(job.data) - job.off)
    IN  /\ job.kind = "get"
        /\ job.off < Len(job.data)
        /\ job.cycles < MaxCycles
        /\ ~src.panic
        /\ advance(n)
        /\ job' = [job EXCEPT !.off = job.off + n, !.cycles = job.cycles + 1,
                              !.out = job.out \o SubSeq(SliceCells(src), 1, n)]
        /\ fifo' = SubSeq(fifo, n + 1, Len(fifo))
        /\ UNCHANGED <<buffer, requested, call, ghost, live, replay, proc>>

\* buf.put_u8(b): the space check of the put loop, then one cycle of it
PutU8(b) ==
    IF remaining_mut = Overflow \/ remaining_mut < 1
    THEN /\ res' = "panic"
         /\ UNCHANGED <<buffer, begin, len>>
    ELSE LET dst == bytes_mut
         IN  IF dst.panic
             THEN /\ res' = "panic"
                  /\ UNCHANGED <<buffer, begin, len>>
             ELSE IF SliceLen(dst) = 0
             THEN /\ res' = "hang"
                  /\ UNCHANGED <<buffer, begin, len>>
             ELSE /\ buffer' = StoreAt(dst.lo, <<b>>)
                  /\ advance_mut(1)

\* the byte buf.get_u8() returns, as a sequence; empty when it panics
GetU8Ret ==
    IF remaining >= 1 /\ ~bytes.panic /\ SliceLen(bytes) > 0
    THEN <<buffer[bytes.lo + 1]>>
    ELSE << >>

\* buf.get_u8(): assert!(self.remaining() >= 1); self.bytes()[0]; self.advance(1)
GetU8 ==
    IF GetU8Ret = << >>
    THEN /\ res' = "panic"
         /\ UNCHANGED <<buffer, begin, len>>
    ELSE /\ advance(1)
         /\ UNCHANGED buffer

\* the byte-wise calls a script is made of
Ops == {[kind |-> "put", byte |-> b] : b \in Byte} \cup {[kind |-> "get", byte |-> 0]}

DoOp(op) == IF op.kind = "put" THEN PutU8(op.byte) ELSE GetU8

\* what the caller sees of a call: its outcome, the byte returned, and
\* remaining() and remaining_mut() after it
Observe(op) ==
    [res |-> res', bytes |-> IF op.kind = "get" THEN GetU8Ret ELSE << >>,
     r |-> remaining', w |-> remaining_mut']

\* calls made before a recorded run; they give the buffer its history
HistoryOp ==
    /\ replay.phase \in {"history1", "history2"}
    /\ \E op \in {[kind |-> "put", byte |-> 0], [kind |-> "get", byte |-> 0]} : DoOp(op)
    /\ UNCHANGED <<requested, call, ghost, live, fifo, job, replay, proc>>

\* a run begins on the buffer, which is empty
StartRun ==
    /\ replay.phase \in {"history1", "history2"}
    /\ len = 0
    /\ replay' = IF replay.phase = "history1"
                 THEN [replay EXCEPT !.phase = "run1", !.begin1 = begin]
                 ELSE [replay EXCEPT !.phase = "run2", !.begin2 = begin]
    /\ UNCHANGED <<buffer, begin, len, requested, call, res, ghost, live, fifo,
                   job, proc>>

\* first run: the caller makes any byte-wise call and notes what it sees
RunOp ==
    /\ replay.phase = "run1"
    /\ Len(replay.script) < MaxOps
    /\ \E op \in Ops :
        /\ DoOp(op)
        /\ replay' = [replay EXCEPT !.script = Append(replay.script, op),
                                    !.obs = Append(replay.obs, Observe(op))]
    /\ UNCHANGED <<requested, call, ghost, live, fifo, job, proc>>

\* the first run is over
EndRun ==
    /\ replay.phase = "run1"
    /\ replay' = [replay EXCEPT !.phase = "history2"]
    /\ UNCHANGED <<buffer, begin, len, requested, call, res, ghost, live, fifo,
                   job, proc>>

\* second run: the same calls in the same order
ReplayOp ==
    /\ replay.phase = "run2"
    /\ Len(replay.obs2) < Len(replay.script)
    /\ LET op == replay.script[Len(replay.obs2) + 1]
       IN  /\ DoOp(op)
           /\ replay' = [replay EXCEPT !.obs2 = Append(replay.obs2, Observe(op))]
    /\ UNCHANGED <<requested, call, ghost, live, fifo, job, proc>>

\* what the two-process steps leave alone
ConcFrame == <<buffer, requested, call, ghost, live, fifo, job, replay>>

\* the reader calls advance(cnt), run as one step
ReaderCall ==
    /\ proc.atomic
    /\ proc.calls < MaxCalls
    /\ \E cnt \in 0..(MaxCap + 1) :
        /\ advance(cnt)
        /\ proc' = [proc EXCEPT !.calls = proc.calls + 1,
                                !.consumed = IF res' = "ok" THEN proc.consumed + cnt
                                             ELSE proc.consumed]
    /\ UNCHANGED ConcFrame

\* the writer calls advance_mut(cnt), run as one step
WriterCall ==
    /\ proc.atomic
    /\ proc.calls < MaxCalls
    /\ \E cnt \in 0..(MaxCap + 1) :
        /\ advance_mut(cnt)
        /\ proc' = [proc EXCEPT !.calls = proc.calls + 1,
                                !.written = IF res' = "ok" THEN proc.written + cnt
                                            ELSE proc.written]
    /\ UNCHANGED ConcFrame

\* the reader enters advance(cnt)
RStart ==
    /\ ~proc.atomic
    /\ proc.rpc = "idle"
    /\ proc.calls < MaxCalls
    /\ \E cnt \in 0..(MaxCap + 1) :
        proc' = [proc EXCEPT !.rpc = "check", !.rcnt = cnt, !.calls = proc.calls + 1]
    /\ UNCHANGED <<begin, len, res, ConcFrame>>

\* assert!(cnt <= self.len)
RCheck ==
    /\ proc.rpc = "check"
    /\ proc' = [proc EXCEPT !.rpc = IF proc.rcnt <= len THEN "begin" ELSE "idle"]
    /\ UNCHANGED <<begin, len, res, ConcFrame>>

\* self.begin += cnt; self.begin %= self.capacity()
RBegin ==
    /\ proc.rpc = "begin"
    /\ IF capacity = 0
       THEN /\ begin' = begin + proc.rcnt
            /\ proc' = [proc EXCEPT !.rpc = "idle"]
       ELSE /\ begin' = (begin + proc.rcnt) % capacity
            /\ proc' = [proc EXCEPT !.rpc = "load"]
    /\ UNCHANGED <<len, res, ConcFrame>>

\* self.len -= cnt, the read of len
RLoad ==
    /\ proc.rpc = "load"
    /\ proc' = [proc EXCEPT !.rpc = "store", !.rtmp = len]
    /\ UNCHANGED <<begin, len, res, ConcFrame>>

\* self.len -= cnt, the write of len
RStore ==
    /\ proc.rpc = "store"
    /\ len' = proc.rtmp - proc.rcnt
    /\ proc' = [proc EXCEPT !.rpc = "idle", !.consumed = proc.consumed + proc.rcnt]
    /\ UNCHANGED <<begin, res, ConcFrame>>

\* the writer enters advance_mut(cnt)
WStart ==
    /\ ~proc.atomic
    /\ proc.wpc = "idle"
    /\ proc.calls < MaxCalls
    /\ \E cnt \in 0..(MaxCap + 1) :
        proc' = [proc EXCEPT !.wpc = "check", !.wcnt = cnt, !.calls = proc.calls + 1]
    /\ UNCHANGED <<begin, len, res, ConcFrame>>

\* assert!(cnt <= self.remaining_mut())
WCheck ==
    /\ proc.wpc = "check"
    /\ proc' = [proc EXCEPT !.wpc = IF remaining_mut # Overflow /\ proc.wcnt <= remaining_mut
                                    THEN "load" ELSE "idle"]
    /\ UNCHANGED <<begin, len, res, ConcFrame>>

\* self.len += cnt, the read of len
WLoad ==
    /\ proc.wpc = "load"
    /\ proc' = [proc EXCEPT !.wpc = "store", !.wtmp = len]
    /\ UNCHANGED <<begin, len, res, ConcFrame>>

\* self.len += cnt, the write of len
WStore ==
    /\ proc.wpc = "store"
    /\ len' = proc.wtmp + proc.wcnt
    /\ proc' = [proc EXCEPT !.wpc = "idle", !.written = proc.written + proc.wcnt]
    /\ UNCHANGED <<begin, res, ConcFrame>>

Next == CallAdvance \/ CallAdvanceMut \/ StoreBytesMut

Spec == Init /\ [][Next]_vars

\* writers and readers that follow the bytes_mut/advance_mut and
\* bytes/advance protocol
NextRW == Put \/ Get

SpecRW == Init /\ [][NextRW]_vars

\* writers that keep the contract of advance_mut, any advance call, and stores
\* through bytes_mut() that are never declared
NextSafe == Write \/ CallAdvance \/ StoreBytesMut

SpecSafe == Init /\ [][NextSafe]_vars

\* values of k bytes written and read by the chunked loops
NextLoop == StartPut \/ PutCycle \/ StartGet \/ GetCycle

SpecLoop == Init /\ [][NextLoop]_vars

\* one script of byte-wise calls run twice on the buffer, each time from an
\* empty state
NextReplay == HistoryOp \/ StartRun \/ RunOp \/ EndRun \/ ReplayOp

SpecReplay == Init /\ [][NextReplay]_vars

\* a reader process calling advance and a writer process calling advance_mut
\* on one buffer without any lock
NextConc ==
    \/ ReaderCall \/ WriterCall
    \/ RStart \/ RCheck \/ RBegin \/ RLoad \/ RStore
    \/ WStart \/ WCheck \/ WLoad \/ WStore

SpecConc == InitConc /\ [][NextConc]_vars

\* ================================================================ claims

\* C1: from an empty buffer at any begin, N bytes written through
\* bytes_mut/advance_mut and then read through bytes/advance come back as the
\* same N bytes in the same order, also when they straddle the end of storage.
C1_RoundTrip ==
    mode # "mixed" =>
        /\ Len(rlog) <= Len(wlog)
        /\ rlog = SubSeq(wlog, 1, Len(rlog))
        /\ len = 0 => rlog = wlog

\* a write of two different bytes that straddled the physical end of storage
\* has been read back completely
C1_Witness ==
    /\ mode = "read"
    /\ len = 0
    /\ Len(wlog) >= 2
    /\ wlog[1] # wlog[2]
    /\ rlog = wlog
    /\ 0 < begin
    /\ begin < Len(wlog)

\* C2: in every state reachable by advance / advance_mut calls, failed calls
\* included, 0 <= len <= capacity and, when capacity > 0, 0 <= begin < capacity.
C2_LenBeginInRange ==
    /\ 0 <= len
    /\ len <= capacity
    /\ capacity > 0 => (0 <= begin /\ begin < capacity)

\* a call has failed on a full buffer whose occupied region wraps
C2_Witness ==
    /\ res = "panic"
    /\ capacity > 1
    /\ len = capacity
    /\ begin = capacity - 1

\* C3: remaining() + remaining_mut() == capacity() in every reachable state,
\* the fresh buffer has remaining() == 0 and remaining_mut() == capacity(), and
\* capacity() is the value passed to new.
C3_CapacityConservation ==
    /\ remaining_mut # Overflow
    /\ remaining + remaining_mut = capacity
    /\ capacity = requested
    /\ call.name = "new" => (remaining = 0 /\ remaining_mut = capacity)

\* a partly filled buffer after bytes were consumed
C3_Witness ==
    /\ 0 < len
    /\ len < capacity
    /\ begin > 0
    /\ call.name = "advance_mut"
    /\ res = "ok"

\* C4: advance(cnt) with cnt > remaining() panics; it does not succeed, does
\* not clamp, and leaves begin and len as they were.
C4_AdvanceOverRemaining ==
    [][(call'.name = "advance" /\ call'.cnt > len)
        => (res' = "panic" /\ begin' = begin /\ len' = len /\ buffer' = buffer)]_vars

\* advance(remaining() + 1) has failed on a buffer holding bytes, away from offset 0
C4_Witness ==
    /\ call.name = "advance"
    /\ res = "panic"
    /\ call.cnt = len + 1
    /\ len > 0
    /\ begin > 0

\* C5: advance_mut(cnt) with cnt > remaining_mut() panics; it does not succeed,
\* does not clamp, and leaves begin and len as they were, so len stays <= capacity.
C5_AdvanceMutOverCapacity ==
    [][(call'.name = "advance_mut" /\ call'.cnt > capacity - len)
        => (res' = "panic" /\ begin' = begin /\ len' = len /\ len' <= capacity)]_vars

\* advance_mut(1) has failed on a full buffer
C5_Witness ==
    /\ call.name = "advance_mut"
    /\ res = "panic"
    /\ call.cnt = 1
    /\ capacity > 0
    /\ len = capacity

\* C6: bytes() is the cells at physical offsets [begin, begin + L) with
\* L == min(len, capacity - begin): it stops at the physical end of storage.
C6_BytesTruncated ==
    /\ ~bytes.panic
    /\ bytes.lo = begin
    /\ SliceLen(bytes) = Min(len, capacity - begin)
    /\ bytes.hi <= capacity
    /\ SliceCells(bytes) = [i \in 1..Min(len, capacity - begin) |-> buffer[begin + i]]
    /\ BytesEnd(6, 16, 16) - 6 = 10

\* the occupied region wraps, so bytes() is shorter than remaining()
C6_Witness ==
    /\ len = capacity
    /\ begin = 1
    /\ SliceLen(bytes) = capacity - 1
    /\ SliceLen(bytes) > 0
    /\ SliceLen(bytes) < len

\* C7: bytes_mut() is the cells from physical offset s == (begin + len) mod
\* capacity with length min(capacity - len, capacity - s); it is empty when the
\* buffer is full and never passes the physical end of storage.
C7_BytesMutTruncated ==
    /\ ~bytes_mut.panic
    /\ len = capacity => SliceLen(bytes_mut) = 0
    /\ bytes_mut.hi <= capacity
    /\ capacity > 0 =>
        LET s == (begin + len) % capacity
        IN  /\ bytes_mut.lo = s
            /\ SliceLen(bytes_mut) = Min(capacity - len, capacity - s)

\* C7 restricted to buffers of capacity > 0
C7_BytesMutTruncatedNonzeroCapacity ==
    capacity > 0 => C7_BytesMutTruncated

\* C8: when bytes() is shorter than remaining(), advance(bytes().len()) makes
\* the next bytes() the whole remainder; when bytes_mut() is shorter than
\* remaining_mut(), advance_mut(bytes_mut().len()) makes the next bytes_mut()
\* as long as the new remaining_mut().
C8_TwoPeeksCoverWrap ==
    [][/\ (/\ call'.name = "advance"
            /\ ~bytes.panic
            /\ SliceLen(bytes) < remaining
            /\ call'.cnt = SliceLen(bytes))
           => (/\ res' = "ok"
               /\ ~bytes'.panic
               /\ remaining' = remaining - SliceLen(bytes)
               /\ SliceLen(bytes') = remaining')
       /\ (/\ call'.name = "advance_mut"
            /\ ~bytes_mut.panic
            /\ SliceLen(bytes_mut) < remaining_mut
            /\ call'.cnt = SliceLen(bytes_mut))
           => (/\ res' = "ok"
               /\ ~bytes_mut'.panic
               /\ remaining_mut' = remaining_mut - SliceLen(bytes_mut)
               /\ SliceLen(bytes_mut') = remaining_mut')]_vars

\* the first bytes() of a wrapped region was consumed and bytes() now starts at
\* offset 0 with the remainder
C8_Witness ==
    /\ call.name = "advance"
    /\ res = "ok"
    /\ call.cnt > 0
    /\ begin = 0
    /\ len > 0
    /\ SliceLen(bytes) = len

\* the first bytes_mut() of a wrapped free region was declared written and
\* bytes_mut() now starts at offset 0 with the rest of the free space
C8_WitnessWrite ==
    /\ call.name = "advance_mut"
    /\ res = "ok"
    /\ call.cnt > 0
    /\ begin + len = capacity
    /\ begin > 0
    /\ len < capacity
    /\ bytes_mut.lo = 0
    /\ SliceLen(bytes_mut) = remaining_mut

\* C9: after a fill to capacity with data A, a complete drain and a refill to
\* capacity with data B, the storage holds B and the bytes read back are B in
\* order; no consumed byte of A comes back.
C9_WrapCorrectness ==
    (Len(prev) = capacity /\ capacity > 0 /\ mode # "mixed" /\ Len(wlog) = capacity) =>
        /\ mode = "write" => (len = capacity /\ Circular(begin, capacity) = wlog)
        /\ \A i \in 1..Len(rlog) : rlog[i] = wlog[i]
        /\ len = 0 => rlog = wlog

\* the refill B differs from A in every byte, started away from offset 0, and
\* was read back completely
C9_Witness ==
    /\ Len(prev) = capacity
    /\ capacity > 1
    /\ Len(wlog) = capacity
    /\ \A i \in 1..capacity : wlog[i] # prev[i]
    /\ mode = "read"
    /\ len = 0
    /\ rlog = wlog
    /\ begin > 0

\* C10: advance(cnt) with cnt <= remaining() and advance_mut(cnt) with
\* cnt <= remaining_mut() succeed for every capacity >= 0, and with cnt == 0
\* they leave begin and len unchanged.
C10_OnlyOverAdvanceFails ==
    [][/\ (call'.name = "advance" /\ call'.cnt <= len)
           => (res' = "ok" /\ (call'.cnt = 0 => (begin' = begin /\ len' = len)))
       /\ (call'.name = "advance_mut" /\ call'.cnt <= capacity - len)
           => (res' = "ok" /\ (call'.cnt = 0 => (begin' = begin /\ len' = len)))]_vars

\* C11: a buffer of capacity 0 is legal: capacity(), remaining() and
\* remaining_mut() are 0 and bytes() and bytes_mut() return an empty slice
\* without failing.
C11_ZeroCapacityLegal ==
    capacity = 0 =>
        /\ remaining = 0
        /\ remaining_mut = 0
        /\ ~bytes.panic
        /\ SliceLen(bytes) = 0
        /\ ~bytes_mut.panic
        /\ SliceLen(bytes_mut) = 0

\* C14: a successful advance(cnt) sets begin to (begin + cnt) mod capacity and
\* len to len - cnt and leaves the capacity and every storage cell unchanged.
C14_AdvanceEffect ==
    [][(call'.name = "advance" /\ res' = "ok")
        => (/\ capacity > 0
            /\ begin' = (begin + call'.cnt) % capacity
            /\ len' = len - call'.cnt
            /\ capacity' = capacity
            /\ buffer' = buffer)]_vars

\* an advance has wrapped begin past the physical end and left written bytes
\* in the cells it consumed
C14_Witness ==
    /\ call.name = "advance"
    /\ res = "ok"
    /\ call.cnt > begin
    /\ call.cnt < capacity
    /\ len > 0
    /\ \E p \in 1..capacity : (p - 1) \notin Occupied /\ buffer[p] \in Byte

\* C15: a successful advance_mut(cnt) sets len to len + cnt and leaves begin,
\* the capacity and every storage cell unchanged; nothing else increases len,
\* and taking bytes_mut() (and storing through it) changes neither begin nor len.
C15_AdvanceMutEffect ==
    [][/\ (call'.name = "advance_mut" /\ res' = "ok")
           => (/\ len' = len + call'.cnt
               /\ begin' = begin
               /\ capacity' = capacity
               /\ buffer' = buffer)
       /\ len' > len => (call'.name = "advance_mut" /\ res' = "ok")
       /\ call'.name = "bytes_mut" => (begin' = begin /\ len' = len)]_vars

\* an advance_mut has added to a len that was not 0, away from offset 0
C15_Witness ==
    /\ call.name = "advance_mut"
    /\ res = "ok"
    /\ call.cnt > 0
    /\ len > call.cnt
    /\ begin > 0

\* C19: the cells of bytes_mut() lie inside the storage and are disjoint from
\* the occupied region, so a store through that slice changes no readable byte.
C19_WritableDisjoint ==
    ~bytes_mut.panic =>
        \A p \in bytes_mut.lo..(bytes_mut.hi - 1) :
            /\ 0 <= p
            /\ p < capacity
            /\ p \notin Occupied

\* a byte was stored through bytes_mut() while the occupied region wrapped
\* around the physical end
C19_Witness ==
    /\ call.name = "bytes_mut"
    /\ len > 0
    /\ begin + len > capacity
    /\ SliceLen(bytes_mut) > 0

\* C19, as an effect: a store through bytes_mut() leaves the readable bytes as
\* they were
C19_StoreKeepsReadable ==
    [][call'.name = "bytes_mut" => Circular(begin, len)' = Circular(begin, len)]_vars

\* C20: bytes() is non-empty exactly when remaining() > 0 and bytes_mut() is
\* non-empty exactly when remaining_mut() > 0, so a loop advancing by the
\* peeked length always moves at least one byte.
C20_PeekProgress ==
    /\ (~bytes.panic /\ SliceLen(bytes) > 0) <=> remaining > 0
    /\ (~bytes_mut.panic /\ SliceLen(bytes_mut) > 0) <=> remaining_mut > 0

\* both regions are non-empty and the occupied one wraps, so bytes() is a
\* proper, non-empty part of it
C20_Witness ==
    /\ begin > 0
    /\ begin + len > capacity
    /\ len < capacity
    /\ SliceLen(bytes) > 0
    /\ SliceLen(bytes) < len
    /\ SliceLen(bytes_mut) > 0

\* C18: under any interleaving of chunked writes and reads the storage read
\* circularly from begin for len cells is the content of a FIFO queue that
\* appends on write and pops on read: no byte is lost, duplicated or reordered.
C18_FifoRefinement ==
    /\ Len(fifo) = len
    /\ Circular(begin, len) = fifo
    /\ ~bytes.panic
    /\ SliceCells(bytes) = SubSeq(fifo, 1, SliceLen(bytes))

\* writes and reads have interleaved and the queue, holding different bytes,
\* wraps around the physical end
C18_Witness ==
    /\ mode = "mixed"
    /\ begin + len > capacity
    /\ len >= 2
    /\ fifo[1] # fifo[len]
    /\ SliceLen(bytes) < len

\* C12: when every advance_mut(n) follows the caller's write of n bytes into
\* the first n cells of the preceding bytes_mut(), every cell bytes() exposes
\* was written by the caller, declared, and not yet consumed; a never-written
\* or consumed cell is not exposed.
C12_InitializedData ==
    /\ ~bytes.panic
    /\ \A p \in bytes.lo..(bytes.hi - 1) : p \in live /\ buffer[p + 1] \in Byte
    /\ Occupied = live

\* bytes() exposes cells while a free cell holds a byte (consumed, or stored
\* and never declared) and another cell was never written
C12_Witness ==
    /\ SliceLen(bytes) > 0
    /\ begin > 0
    /\ \E p \in 0..(capacity - 1) : p \notin live /\ buffer[p + 1] \in Byte
    /\ \E p \in 0..(capacity - 1) : buffer[p + 1] = Uninit

\* C13: a k-byte value written by the chunked bytes_mut/advance_mut loop and
\* read by the chunked bytes/advance loop is moved completely and in order,
\* also across the physical end of storage: every cycle before the end moves
\* at least one byte and the loop ends after at most two cycles with exactly
\* k bytes moved.
C13_ChunkedValue ==
    job.kind # "idle" =>
        /\ job.cycles <= 2
        /\ job.off <= Len(job.data)
        /\ job.off < Len(job.data) =>
            /\ job.cycles <= 1
            /\ job.kind = "put" => (~bytes_mut.panic /\ SliceLen(bytes_mut) >= 1)
            /\ job.kind = "get" => (~bytes.panic /\ SliceLen(bytes) >= 1)
        /\ job.kind = "get" => job.out = SubSeq(job.data, 1, job.off)
        /\ (job.kind = "put" /\ job.off = Len(job.data)) =>
            /\ len >= Len(job.data)
            /\ Circular(begin + len - Len(job.data), Len(job.data)) = job.data

\* a two-byte value with different bytes, stored across the physical end, was
\* read back in two cycles
C13_Witness ==
    /\ job.kind = "get"
    /\ Len(job.data) = 2
    /\ job.off = 2
    /\ job.cycles = 2
    /\ job.data[1] # job.data[2]
    /\ job.out = job.data

\* a two-byte value was written across the physical end in two cycles
C13_WitnessPut ==
    /\ job.kind = "put"
    /\ Len(job.data) = 2
    /\ job.off = 2
    /\ job.cycles = 2
    /\ job.data[1] # job.data[2]

\* the crate's example: capacity 4, two 16-bit values written, then both read
C13_WitnessExample ==
    /\ capacity = 4
    /\ job.kind = "get"
    /\ Len(job.data) = 2
    /\ job.off = 2
    /\ job.cycles = 1
    /\ job.out = job.data
    /\ begin = 0
    /\ len = 0

\* C16: begin is not reset when the buffer drains, and that is harmless: the
\* same byte-wise writes and reads applied to two empty buffers of one
\* capacity with different begin report the same remaining() and
\* remaining_mut() after every call, return the same bytes and fail on the
\* same calls.
C16_BeginIrrelevant ==
    replay.phase = "run2" =>
        /\ Len(replay.obs2) <= Len(replay.obs)
        /\ \A i \in 1..Len(replay.obs2) : replay.obs2[i] = replay.obs[i]

\* a script with a failing call and a returned byte was run from two empty
\* states with different begin, one of them not 0
C16_Witness ==
    /\ replay.phase = "run2"
    /\ Len(replay.script) >= 3
    /\ replay.obs2 = replay.obs
    /\ replay.begin1 # replay.begin2
    /\ \E i \in 1..Len(replay.obs) : replay.obs[i].res = "panic"
    /\ \E i \in 1..Len(replay.obs) : replay.obs[i].bytes # << >>

\* C17: with each advance and advance_mut executed as one step, len always
\* equals the bytes declared written minus the bytes consumed; with their
\* check, read and update steps interleaved, a state where it does not is
\* reachable (C17_Witness).
C17_AtomicConsistent ==
    proc.atomic => len = proc.written - proc.consumed

\* both calls have returned after interleaving statement by statement and one
\* update of len is lost
C17_Witness ==
    /\ ~proc.atomic
    /\ proc.rpc = "idle"
    /\ proc.wpc = "idle"
    /\ len # proc.written - proc.consumed

\* C17, for the processes run statement by statement: len stays consistent
\* (refuted by C17_Witness)
C17_InterleavedConsistent ==
    (proc.rpc = "idle" /\ proc.wpc = "idle") => len = proc.written - proc.consumed
====
